---- MODULE Spec2Model ----
(***************************************************************************)
(* A model of the Qwen API client, src/src/clients/qwen.rs:                *)
(* build_headers, build_request, chat and the chat_stream generator with   *)
(* its incremental frame parser.                                           *)
(*                                                                         *)
(* Text is modelled character by character.  A byte is a one-character     *)
(* string for an ASCII byte and "xC3" / "xA9" for the two bytes of the     *)
(* UTF-8 encoding of U+00E9; a decoded character is the same one-character *)
(* string for ASCII, "U+E9" for U+00E9 and "U+FFFD" for the replacement    *)
(* character.  A String is a sequence of characters, a chunk a sequence of *)
(* bytes.  Offsets count characters where the code counts UTF-8 bytes; the *)
(* code slices only at positions found by find, which are character        *)
(* boundaries, so the two agree.                                           *)
(***************************************************************************)
EXTENDS Naturals, Integers, Sequences, FiniteSets, TLC

\* ------------------------------------------------------------------ bounds

\* Longest message list given to build_request.
MaxMsgs == 2

\* the bytes of a chunk of the service in SpecPair are a multiple of this
PairChunk == 16

\* ------------------------------------------------------------- characters

LF == "\n"
QT == "\""
LeadByte == "xC3"
ContByte == "xA9"
EAcute == "U+E9"
Replacement == "U+FFFD"

Digits == {"0", "1", "2", "3", "4", "5", "6", "7", "8", "9"}

DigitValue(c) ==
    CASE c = "0" -> 0 [] c = "1" -> 1 [] c = "2" -> 2 [] c = "3" -> 3
      [] c = "4" -> 4 [] c = "5" -> 5 [] c = "6" -> 6 [] c = "7" -> 7
      [] c = "8" -> 8 [] OTHER -> 9

\* ---------------------------------------------------------- str operations

\* s[from..], 1-based: the suffix of s that starts at index from.
Slice(s, from) ==
    SubSeq(s, from, Len(s))

\* str::starts_with
StartsWith(s, pat) ==
    /\ Len(s) >= Len(pat)
    /\ SubSeq(s, 1, Len(pat)) = pat

\* whether pat occurs in s at index i (1-based)
MatchAt(s, pat, i) ==
    /\ i + Len(pat) - 1 <= Len(s)
    /\ SubSeq(s, i, i + Len(pat) - 1) = pat

\* str::find: the 0-based offset of the first occurrence of pat in s, or -1
\* for None.
Find(s, pat) ==
    LET hits == {i \in 1..Len(s) : MatchAt(s, pat, i)}
    IN  IF hits = {} THEN -1
        ELSE (CHOOSE i \in hits : \A j \in hits : i <= j) - 1

\* str::contains
Contains(s, pat) ==
    Find(s, pat) >= 0

RECURSIVE Replace(_, _, _)
\* str::replace: every non-overlapping occurrence of from, left to right,
\* becomes to.
Replace(s, from, to) ==
    LET at == Find(s, from)
    IN  IF at < 0 THEN s
        ELSE SubSeq(s, 1, at) \o to \o Replace(Slice(s, at + Len(from) + 1), from, to)

\* String::from_utf8_lossy on one byte slice: a lead byte followed by its
\* continuation byte decodes to the character, a lead byte with nothing valid
\* after it and a continuation byte on its own each become U+FFFD.  The
\* continuation byte of a decoded pair gives no character of its own ("").
Utf8Lossy(bytes) ==
    LET decoded == [i \in 1..Len(bytes) |->
                       IF bytes[i] = LeadByte
                       THEN IF i < Len(bytes) /\ bytes[i + 1] = ContByte
                            THEN EAcute ELSE Replacement
                       ELSE IF bytes[i] = ContByte
                            THEN IF i > 1 /\ bytes[i - 1] = LeadByte
                                 THEN "" ELSE Replacement
                            ELSE bytes[i]]
    IN  SelectSeq(decoded, LAMBDA c : c # "")

\* ------------------------------------------------------- protocol literals

\* "\n\n"
Terminator == <<LF, LF>>

\* "data: "
DataPrefix == <<"d", "a", "t", "a", ":", " ">>

\* "[DONE]"
DoneToken == <<"[", "D", "O", "N", "E", "]">>

\* "data: {"
RewriteFrom == DataPrefix \o <<"{">>

\* "data"
TagData == <<"d", "a", "t", "a">>

\* "NONE"
TagNone == <<"N", "O", "N", "E">>

\* {"data": "data",
RewriteTo == <<"{", QT>> \o TagData \o <<QT, ":", " ", QT>> \o TagData \o <<QT, ",">>

\* {"data": "NONE"}
DoneJson == <<"{", QT>> \o TagData \o <<QT, ":", " ", QT>> \o TagNone \o <<QT, "}">>

\* ------------------------------------------------------------- JSON text
\* serde_json's reader on the characters the modelled inputs are written in:
\* objects, arrays, strings without escapes, unsigned integers and null.  A
\* value is [t, v]: t is "str" (v the characters), "num" (v the number),
\* "null", "arr" (v the sequence of elements) or "obj" (v the sequence of
\* <<key, value>> members in text order, duplicates kept).  A parse result
\* is [ok, v, p], p the index of the first character after the value.

JFail == [ok |-> FALSE, v |-> 0, p |-> 1]

JOk(val, next) == [ok |-> TRUE, v |-> val, p |-> next]

JStr(chars) == [t |-> "str", v |-> chars]

JNum(n) == [t |-> "num", v |-> n]

JNull == [t |-> "null", v |-> 0]

JArr(elems) == [t |-> "arr", v |-> elems]

JObj(members) == [t |-> "obj", v |-> members]

NullWord == <<"n", "u", "l", "l">>

RECURSIVE SkipWs(_, _)
\* the index of the first character at or after p that is not whitespace
SkipWs(s, p) ==
    IF p <= Len(s) /\ s[p] \in {" ", LF} THEN SkipWs(s, p + 1) ELSE p

\* whether the character at p is c
At(s, p, c) ==
    p <= Len(s) /\ s[p] = c

\* a string whose opening quote is at p: the characters up to the next quote,
\* none of which may be a control character
ParseString(s, p) ==
    LET close == Find(Slice(s, p + 1), <<QT>>)
        body == SubSeq(s, p + 1, p + close)
    IN  IF close < 0 \/ \E i \in 1..Len(body) : body[i] = LF
        THEN JFail
        ELSE JOk(body, p + close + 2)

\* a string as a value
StringValue(r) ==
    IF r.ok THEN JOk(JStr(r.v), r.p) ELSE JFail

RECURSIVE ParseDigits(_, _, _)
\* the digits from p on, acc the value of the digits read so far
ParseDigits(s, p, acc) ==
    IF p <= Len(s) /\ s[p] \in Digits
    THEN ParseDigits(s, p + 1, 10 * acc + DigitValue(s[p]))
    ELSE JOk(JNum(acc), p)

\* a number whose first digit is at p; a leading 0 may not be followed by a
\* digit
ParseNumber(s, p) ==
    IF s[p] = "0"
    THEN IF p + 1 <= Len(s) /\ s[p + 1] \in Digits THEN JFail ELSE JOk(JNum(0), p + 1)
    ELSE ParseDigits(s, p, 0)

RECURSIVE ParseValue(_, _)
RECURSIVE ParseElems(_, _, _)
RECURSIVE ParseMembers(_, _, _)

\* after an element of an array, at e: "]" ends the array, "," asks for
\* another element
ElemSep(s, acc, e) ==
    IF At(s, e, "]") THEN JOk(JArr(acc), e + 1)
    ELSE IF At(s, e, ",") THEN ParseElems(s, e + 1, acc)
    ELSE JFail

\* the element r parsed joins acc
ElemNext(s, r, acc) ==
    IF r.ok THEN ElemSep(s, Append(acc, r.v), SkipWs(s, r.p)) ELSE JFail

\* the elements of an array from p on, acc the elements read so far
ParseElems(s, p, acc) ==
    ElemNext(s, ParseValue(s, p), acc)

\* after a member of an object, at e: "}" ends the object, "," asks for
\* another member
MemberSep(s, acc, e) ==
    IF At(s, e, "}") THEN JOk(JObj(acc), e + 1)
    ELSE IF At(s, e, ",") THEN ParseMembers(s, e + 1, acc)
    ELSE JFail

\* the value r parsed for key joins acc
MemberNext(s, key, r, acc) ==
    IF r.ok THEN MemberSep(s, Append(acc, <<key, r.v>>), SkipWs(s, r.p)) ELSE JFail

\* the ":" at c, then the value
MemberValue(s, key, c, acc) ==
    IF At(s, c, ":") THEN MemberNext(s, key, ParseValue(s, c + 1), acc) ELSE JFail

\* the key k parsed
MemberColon(s, k, acc) ==
    IF k.ok THEN MemberValue(s, k.v, SkipWs(s, k.p), acc) ELSE JFail

\* the key whose opening quote must be at q
MemberKey(s, q, acc) ==
    IF At(s, q, QT) THEN MemberColon(s, ParseString(s, q), acc) ELSE JFail

\* the members of an object from p on, acc the members read so far; a member
\* is a string key, ":" and a value
ParseMembers(s, p, acc) ==
    MemberKey(s, SkipWs(s, p), acc)

\* the array whose first element or "]" is at q
ArrayAt(s, q) ==
    IF At(s, q, "]") THEN JOk(JArr(<<>>), q + 1) ELSE ParseElems(s, q, <<>>)

\* the object whose first member or "}" is at q
ObjectAt(s, q) ==
    IF At(s, q, "}") THEN JOk(JObj(<<>>), q + 1) ELSE ParseMembers(s, q, <<>>)

\* the value whose first character is at q
ValueAt(s, q) ==
    IF q > Len(s) THEN JFail
    ELSE IF s[q] = QT THEN StringValue(ParseString(s, q))
    ELSE IF s[q] \in Digits THEN ParseNumber(s, q)
    ELSE IF s[q] = "n"
         THEN IF MatchAt(s, NullWord, q) THEN JOk(JNull, q + 4) ELSE JFail
    ELSE IF s[q] = "[" THEN ArrayAt(s, SkipWs(s, q + 1))
    ELSE IF s[q] = "{" THEN ObjectAt(s, SkipWs(s, q + 1))
    ELSE JFail

\* one JSON value starting at or after p
ParseValue(s, p) ==
    ValueAt(s, SkipWs(s, p))

\* the value r is the whole text when only whitespace follows it
WholeText(s, r) ==
    IF r.ok /\ SkipWs(s, r.p) > Len(s) THEN r ELSE JFail

\* serde_json::from_str up to the value tree: one value, then only
\* whitespace
ParseJson(s) ==
    WholeText(s, ParseValue(s, 1))

\* --------------------------------------------------- derived Deserialize
\* What #[derive(Deserialize)] does with a value tree.  A result is [ok, v].
\* An Option is a sequence: <<>> for None, <<x>> for Some(x).  The modelled
\* inputs write every struct as a JSON object.

DeFail == [ok |-> FALSE, v |-> 0]

DeOk(val) == [ok |-> TRUE, v |-> val]

\* the key of a field name
KId == <<"i", "d">>
KObject == <<"o", "b", "j", "e", "c", "t">>
KCreated == <<"c", "r", "e", "a", "t", "e", "d">>
KModel == <<"m", "o", "d", "e", "l">>
KChoices == <<"c", "h", "o", "i", "c", "e", "s">>
KUsage == <<"u", "s", "a", "g", "e">>
KFingerprint ==
    <<"s", "y", "s", "t", "e", "m", "_", "f", "i", "n", "g", "e", "r", "p", "r", "i", "n", "t">>
KIndex == <<"i", "n", "d", "e", "x">>
KDelta == <<"d", "e", "l", "t", "a">>
KFinish == <<"f", "i", "n", "i", "s", "h", "_", "r", "e", "a", "s", "o", "n">>
KLogprobs == <<"l", "o", "g", "p", "r", "o", "b", "s">>
KRole == <<"r", "o", "l", "e">>
KContent == <<"c", "o", "n", "t", "e", "n", "t">>
KPrompt == <<"p", "r", "o", "m", "p", "t", "_", "t", "o", "k", "e", "n", "s">>
KCompletion ==
    <<"c", "o", "m", "p", "l", "e", "t", "i", "o", "n", "_", "t", "o", "k", "e", "n", "s">>
KTotal == <<"t", "o", "t", "a", "l", "_", "t", "o", "k", "e", "n", "s">>
KMessage == <<"m", "e", "s", "s", "a", "g", "e">>

\* the values the members of an object give a key, in text order
Values(members, key) ==
    LET at == {i \in 1..Len(members) : members[i][1] = key}
        pick[n \in 0..Len(members)] ==
            IF n = 0 THEN <<>>
            ELSE IF n \in at THEN Append(pick[n - 1], members[n][2]) ELSE pick[n - 1]
    IN  pick[Len(members)]

\* a field of type T without a default: present exactly once (a second
\* occurrence is the error "duplicate field") with a value of kind t
Required(members, key, t) ==
    LET vs == Values(members, key)
    IN  IF Len(vs) = 1 /\ vs[1].t = t THEN DeOk(vs[1].v) ELSE DeFail

\* a field of type Option<T>: absent or null is None, one value of kind t is
\* Some, anything else an error
Optional(members, key, t) ==
    LET vs == Values(members, key)
    IN  IF Len(vs) = 0 THEN DeOk(<<>>)
        ELSE IF Len(vs) = 1 /\ vs[1].t = "null" THEN DeOk(<<>>)
        ELSE IF Len(vs) = 1 /\ vs[1].t = t THEN DeOk(<<vs[1].v>>)
        ELSE DeFail

\* QwenMessage { role: Option<String>, content: Option<String> }
DeQwenMessage(val) ==
    IF val.t # "obj" THEN DeFail
    ELSE LET role == Optional(val.v, KRole, "str")
             content == Optional(val.v, KContent, "str")
         IN  IF role.ok /\ content.ok
             THEN DeOk([role |-> role.v, content |-> content.v])
             ELSE DeFail

\* StreamChoice { index: i32, delta: QwenMessage, finish_reason:
\* Option<String>, logprobs: Option<String> }
DeStreamChoice(val) ==
    IF val.t # "obj" THEN DeFail
    ELSE LET index == Required(val.v, KIndex, "num")
             delta == Required(val.v, KDelta, "obj")
             msg == IF delta.ok THEN DeQwenMessage(JObj(delta.v)) ELSE DeFail
             finish == Optional(val.v, KFinish, "str")
             logprobs == Optional(val.v, KLogprobs, "str")
         IN  IF index.ok /\ msg.ok /\ finish.ok /\ logprobs.ok
             THEN DeOk([index |-> index.v, delta |-> msg.v,
                        finish_reason |-> finish.v, logprobs |-> logprobs.v])
             ELSE DeFail

\* Usage { prompt_tokens: u32, completion_tokens: u32, total_tokens: u32 }
DeUsage(val) ==
    IF val.t # "obj" THEN DeFail
    ELSE LET prompt == Required(val.v, KPrompt, "num")
             completion == Required(val.v, KCompletion, "num")
             total == Required(val.v, KTotal, "num")
         IN  IF prompt.ok /\ completion.ok /\ total.ok
             THEN DeOk([prompt_tokens |-> prompt.v, completion_tokens |-> completion.v,
                        total_tokens |-> total.v])
             ELSE DeFail

\* Vec<StreamChoice>
DeStreamChoices(elems) ==
    IF \A i \in 1..Len(elems) : DeStreamChoice(elems[i]).ok
    THEN DeOk([i \in 1..Len(elems) |-> DeStreamChoice(elems[i]).v])
    ELSE DeFail

\* Option<Usage>
DeOptionUsage(members) ==
    LET vs == Values(members, KUsage)
    IN  IF Len(vs) = 0 THEN DeOk(<<>>)
        ELSE IF Len(vs) = 1 /\ vs[1].t = "null" THEN DeOk(<<>>)
        ELSE IF Len(vs) = 1 /\ DeUsage(vs[1]).ok THEN DeOk(<<DeUsage(vs[1]).v>>)
        ELSE DeFail

\* StreamEvent::None
NoneEvent == [data |-> "NONE"]

\* the fields of StreamEvent::Message, each as it deserialized
MessageOf(id, object, created, model, choices, usage, fingerprint) ==
    IF id.ok /\ object.ok /\ created.ok /\ model.ok /\ choices.ok /\ usage.ok
       /\ fingerprint.ok
    THEN DeOk([data |-> "data", id |-> id.v, object |-> object.v,
               created |-> created.v, model |-> model.v, choices |-> choices.v,
               usage |-> usage.v, system_fingerprint |-> fingerprint.v])
    ELSE DeFail

\* Vec<StreamChoice> from the array the member choices gave
ChoicesOf(arr) ==
    IF arr.ok THEN DeStreamChoices(arr.v) ELSE DeFail

\* StreamEvent::Message from the members of the tagged object; members it
\* does not name are ignored
DeMessage(members) ==
    MessageOf(Required(members, KId, "str"), Required(members, KObject, "str"),
              Required(members, KCreated, "num"), Required(members, KModel, "str"),
              ChoicesOf(Required(members, KChoices, "arr")), DeOptionUsage(members),
              Optional(members, KFingerprint, "str"))

\* the variant the tag names: "data" is Message, "NONE" is None, whose other
\* members are ignored; the tag must occur exactly once
TaggedEvent(members, tags) ==
    IF Len(tags) # 1 \/ tags[1].t # "str" THEN DeFail
    ELSE IF tags[1].v = TagNone THEN DeOk(NoneEvent)
    ELSE IF tags[1].v = TagData THEN DeMessage(members)
    ELSE DeFail

\* StreamEvent from a parsed text: an object tagged internally by "data"
EventOf(r) ==
    IF r.ok /\ r.v.t = "obj" THEN TaggedEvent(r.v.v, Values(r.v.v, TagData)) ELSE DeFail

\* serde_json::from_str::<StreamEvent>
DeStreamEvent(text) ==
    EventOf(ParseJson(text))

\* ------------------------------------------------------------ build_headers

\* ApiError::Internal, ApiError::QwenError
InternalError(msg) == [err |-> "Internal", type_ |-> "", message |-> msg]

QwenError(tag, msg) == [err |-> "QwenError", type_ |-> tag, message |-> msg]

\* whether str::parse::<HeaderValue>() accepts the text: no control
\* character other than a tab
HeaderValueOk(text) ==
    \A i \in 1..Len(text) : text[i] # LF

\* "Bearer "
Bearer == <<"B", "e", "a", "r", "e", "r", " ">>

\* "application/json"
ContentTypeJson ==
    <<"a", "p", "p", "l", "i", "c", "a", "t", "i", "o", "n", "/", "j", "s", "o", "n">>

\* super::build_headers: the custom headers as a header map, or an error
\* when one of them cannot be encoded as a header value
SuperBuildHeaders(custom) ==
    IF \A name \in DOMAIN custom : HeaderValueOk(custom[name])
    THEN DeOk(custom)
    ELSE DeFail

\* BuildHeaders as it would be with values built without validation: never
\* an error
BuildHeadersUnchecked(api_token, custom) ==
    DeOk([name \in {"Authorization", "Content-Type"} \cup DOMAIN custom |->
             IF name \in DOMAIN custom THEN custom[name]
             ELSE IF name = "Authorization" THEN Bearer \o api_token
             ELSE ContentTypeJson])

\* QwenClient::build_headers: Authorization and Content-Type, then the
\* custom headers laid over them; Err(Internal) when a value does not parse
BuildHeaders(api_token, custom) ==
    LET auth == Bearer \o api_token
        extra == SuperBuildHeaders(custom)
        base == [name \in {"Authorization", "Content-Type"} |->
                    IF name = "Authorization" THEN auth ELSE ContentTypeJson]
    IN  IF ~HeaderValueOk(auth) THEN [ok |-> FALSE, v |-> InternalError("Invalid API token")]
        ELSE IF ~HeaderValueOk(ContentTypeJson)
             THEN [ok |-> FALSE, v |-> InternalError("Invalid content type")]
        ELSE IF ~extra.ok THEN [ok |-> FALSE, v |-> InternalError("Invalid header")]
        ELSE DeOk([name \in DOMAIN base \cup DOMAIN extra.v |->
                      IF name \in DOMAIN extra.v THEN extra.v[name] ELSE base[name]])

\* ------------------------------------------------------------ build_request
\* A serde_json::Value is [t, v] as above, with "bool" added, strings and
\* keys as whole strings, and the v of an "obj" a function from its keys to
\* their values.

JBool(b) == [t |-> "bool", v |-> b]

\* DEFAULT_MODEL
DefaultModel == JStr("qwen-plus")

\* the default of max_tokens
DefaultMaxTokens == JNum(8192)

\* Value::get: the member of an object, None for a missing key or a value
\* that is no object
Get(val, key) ==
    IF val.t = "obj" /\ key \in DOMAIN val.v THEN <<val.v[key]>> ELSE <<>>

\* Option::unwrap_or
UnwrapOr(opt, default) ==
    IF opt = <<>> THEN default ELSE opt[1]

\* the keys build_request removes from the configuration body
ProtectedKeys == {"stream", "messages", "system"}

\* FilterMessages as it would be without the filter of line 160, the system
\* role mapped like the others
KeepAllMessages(messages) ==
    [i \in 1..Len(messages) |->
        [role |-> CASE messages[i].role = "User" -> <<"user">>
                    [] messages[i].role = "Assistant" -> <<"assistant">>
                    [] OTHER -> <<"system">>,
         content |-> <<messages[i].content>>]]

\* lines 158-169: the messages that are not system messages, as QwenMessage
FilterMessages(messages) ==
    LET kept == SelectSeq(messages, LAMBDA msg : msg.role # "System")
    IN  [i \in 1..Len(kept) |->
            [role |-> IF kept[i].role = "User" THEN <<"user">> ELSE <<"assistant">>,
             content |-> <<kept[i].content>>]]

\* Serialize for Option<String>
OptionToValue(opt) ==
    IF opt = <<>> THEN JNull ELSE JStr(opt[1])

\* Serialize for Vec<QwenMessage>
MessagesToValue(msgs) ==
    JArr([i \in 1..Len(msgs) |->
            JObj([k \in {"role", "content"} |->
                    IF k = "role" THEN OptionToValue(msgs[i].role)
                    ELSE OptionToValue(msgs[i].content)])])

\* Deserialize for Option<String> from the member key of an object
OptionFromValue(obj, key) ==
    LET m == Get(obj, key)
    IN  IF m = <<>> THEN DeOk(<<>>)
        ELSE IF m[1].t = "null" THEN DeOk(<<>>)
        ELSE IF m[1].t = "str" THEN DeOk(<<m[1].v>>)
        ELSE DeFail

\* Deserialize for Vec<QwenMessage>
MessagesFromValue(val) ==
    IF /\ val.t = "arr"
       /\ \A i \in 1..Len(val.v) :
            /\ val.v[i].t = "obj"
            /\ OptionFromValue(val.v[i], "role").ok
            /\ OptionFromValue(val.v[i], "content").ok
    THEN DeOk([i \in 1..Len(val.v) |->
                  [role |-> OptionFromValue(val.v[i], "role").v,
                   content |-> OptionFromValue(val.v[i], "content").v]])
    ELSE DeFail

\* serde_json::from_value::<QwenRequest>: messages and stream from their
\* keys, every other member into the flattened additional_params
RequestFromValue(val) ==
    LET messages == IF "messages" \in DOMAIN val.v
                    THEN MessagesFromValue(val.v["messages"]) ELSE DeFail
        stream == Get(val, "stream")
    IN  IF messages.ok /\ stream # <<>> /\ stream[1].t = "bool"
        THEN DeOk([messages |-> messages.v, stream |-> stream[1].v,
                   additional_params |->
                       JObj([k \in DOMAIN val.v \ {"messages", "stream"} |-> val.v[k]])])
        ELSE DeFail

\* MergedKeys as it would be without the three removals of lines 187-189
MergedKeysAll(body) ==
    DOMAIN body.v

\* lines 186-189: the configuration's members that are merged into the
\* request
MergedKeys(body) ==
    DOMAIN body.v \ ProtectedKeys

\* RequestValue as it would be without the defaults of lines 171-174: the
\* base object holds "messages" and "stream" only
RequestValueNoDefaults(filtered, stream, body) ==
    LET base == [k \in {"messages", "stream"} |->
                    IF k = "messages" THEN MessagesToValue(filtered) ELSE JBool(stream)]
    IN  IF body.t = "obj"
        THEN JObj([k \in DOMAIN base \cup MergedKeys(body) |->
                      IF k \in MergedKeys(body) THEN body.v[k] ELSE base[k]])
        ELSE JObj(base)

\* lines 175-197: the base object, with the members of the configuration
\* body (when it is an object) inserted over it
RequestValue(filtered, stream, body) ==
    LET base == [k \in {"messages", "stream", "model", "max_tokens"} |->
                    CASE k = "messages" -> MessagesToValue(filtered)
                      [] k = "stream" -> JBool(stream)
                      [] k = "model" -> UnwrapOr(Get(body, "model"), DefaultModel)
                      [] OTHER -> UnwrapOr(Get(body, "max_tokens"), DefaultMaxTokens)]
    IN  IF body.t = "obj"
        THEN JObj([k \in DOMAIN base \cup MergedKeys(body) |->
                      IF k \in MergedKeys(body) THEN body.v[k] ELSE base[k]])
        ELSE JObj(base)

\* QwenClient::build_request(messages, stream, config), body the
\* configuration's body
BuildRequest(messages, stream, body) ==
    LET filtered == FilterMessages(messages)
        parsed == RequestFromValue(RequestValue(filtered, stream, body))
    IN  IF parsed.ok THEN parsed.v
        ELSE [messages |-> filtered, stream |-> stream, additional_params |-> body]


\* ---------------------------------------------------------------- chat
\* The outcome of the POST is [delivered, status, body, readable]: whether
\* send() returned a response, its status code, the bytes of its body and
\* whether the body can be read to its end.

\* StatusCode::is_success
IsSuccess(status) ==
    status >= 200 /\ status <= 299

\* models::Message inside a Choice: a role of the closed set and a content
DeModelMessage(val) ==
    IF val.t # "obj" THEN DeFail
    ELSE LET role == Required(val.v, KRole, "str")
             content == Required(val.v, KContent, "str")
         IN  IF role.ok /\ content.ok
                /\ role.v \in {<<"u", "s", "e", "r">>, <<"s", "y", "s", "t", "e", "m">>,
                               <<"a", "s", "s", "i", "s", "t", "a", "n", "t">>}
             THEN DeOk([role |-> role.v, content |-> content.v])
             ELSE DeFail

\* Choice { index: i32, message: Message, finish_reason: Option<String> }
DeChoice(val) ==
    IF val.t # "obj" THEN DeFail
    ELSE LET index == Required(val.v, KIndex, "num")
             message == Required(val.v, KMessage, "obj")
             msg == IF message.ok THEN DeModelMessage(JObj(message.v)) ELSE DeFail
             finish == Optional(val.v, KFinish, "str")
         IN  IF index.ok /\ msg.ok /\ finish.ok
             THEN DeOk([index |-> index.v, message |-> msg.v, finish_reason |-> finish.v])
             ELSE DeFail

\* Vec<Choice> from the array the member choices gave
DeChoices(arr) ==
    IF arr.ok /\ \A i \in 1..Len(arr.v) : DeChoice(arr.v[i]).ok
    THEN DeOk([i \in 1..Len(arr.v) |-> DeChoice(arr.v[i]).v])
    ELSE DeFail

\* usage: Usage, from the values the member usage gave
UsageOf(usages) ==
    IF Len(usages) = 1 THEN DeUsage(usages[1]) ELSE DeFail

\* the fields of QwenResponse, each as it deserialized
ResponseOf(id, object, created, model, choices, usage) ==
    IF id.ok /\ object.ok /\ created.ok /\ model.ok /\ choices.ok /\ usage.ok
    THEN DeOk([id |-> id.v, object |-> object.v, created |-> created.v,
               model |-> model.v, choices |-> choices.v, usage |-> usage.v])
    ELSE DeFail

\* QwenResponse from the members of an object
ResponseFields(members) ==
    ResponseOf(Required(members, KId, "str"), Required(members, KObject, "str"),
               Required(members, KCreated, "num"), Required(members, KModel, "str"),
               DeChoices(Required(members, KChoices, "arr")),
               UsageOf(Values(members, KUsage)))

\* QwenResponse from a parsed text
ResponseFrom(r) ==
    IF r.ok /\ r.v.t = "obj" THEN ResponseFields(r.v.v) ELSE DeFail

\* the text of a body that is valid UTF-8, parsed
ParseBody(text) ==
    IF \E i \in 1..Len(text) : text[i] = Replacement THEN JFail ELSE ParseJson(text)

\* Response::json::<QwenResponse>: the body must be valid UTF-8 and a JSON
\* object with id, object, created, model, choices and usage
DeQwenResponse(body) ==
    ResponseFrom(ParseBody(Utf8Lossy(body)))

\* the fixed text of a formatted message
Msg(text) == <<text>>

Err(e) == [ok |-> FALSE, v |-> e]

\* lines 219-224 and 270-275
RequestFailed == QwenError("request_failed", Msg("Request failed"))

\* lines 226-237: the error chat returns for a response without a success
\* status
ApiErrorOf(outcome) ==
    QwenError("api_error",
              IF outcome.readable THEN Utf8Lossy(outcome.body) ELSE Msg("Unknown error"))

\* lines 239-247: the body of a response with a success status, decoded
ParsedOr(parsed) ==
    IF parsed.ok THEN parsed
    ELSE Err(QwenError("parse_error", Msg("Failed to parse response")))

\* lines 239-247: response.json::<QwenResponse>().await.map_err(..)
DecodeResponse(outcome) ==
    ParsedOr(IF outcome.readable THEN DeQwenResponse(outcome.body) ELSE DeFail)

\* ChatResult as it would be without the status test of line 226, as in
\* chat_stream: every delivered body is decoded
ChatResultAnyStatus(outcome) ==
    IF ~outcome.delivered THEN Err(RequestFailed) ELSE DecodeResponse(outcome)

\* lines 212-247: what chat returns for the outcome of its POST
ChatResult(outcome) ==
    IF ~outcome.delivered THEN Err(RequestFailed)
    ELSE IF ~IsSuccess(outcome.status) THEN Err(ApiErrorOf(outcome))
    ELSE DecodeResponse(outcome)


\* --------------------------------------------------- the frame parser's steps

\* FrameJson as it would be without the test of line 299: the done sentinel
\* is rewritten like any frame
FrameJsonNoSentinel(line) ==
    Replace(line, RewriteFrom, RewriteTo)

\* lines 298-303: the text handed to the deserializer for a frame
FrameJson(line) ==
    IF Contains(line, DoneToken) THEN DoneJson
    ELSE Replace(line, RewriteFrom, RewriteTo)

\* lines 304-307: if let Ok(event) = .. { yield event }
IfOk(event) ==
    IF event.ok THEN <<event.v>> ELSE <<>>

\* FrameEvents as it would be without the test of line 297: every frame is
\* handed to the deserializer
FrameEventsAnyPrefix(line) ==
    IfOk(DeStreamEvent(FrameJson(line)))

\* lines 297-308: the events a frame yields, none or one
FrameEvents(line) ==
    IF StartsWith(line, DataPrefix) THEN IfOk(DeStreamEvent(FrameJson(line))) ELSE <<>>

\* FindTerminator as it would be with an if in place of the while of line
\* 292: one frame for a chunk, none after the first
FindTerminatorOnce(buf, from) ==
    IF from > 0 THEN -1 ELSE Find(buf, Terminator)

\* line 292: data[start..].find("\n\n")
FindTerminator(buf, from) ==
    Find(Slice(buf, from + 1), Terminator)

\* line 289: data.push_str(&String::from_utf8_lossy(&chunk))
PushChunk(buf, chunk) ==
    buf \o Utf8Lossy(chunk)

\* Retain as it would be with data.clear() after a scan that found a frame
RetainNothing(buf, from) ==
    IF from > 0 THEN <<>> ELSE buf

\* Retain as it would be without the assignment of line 314: the consumed
\* frames stay in the buffer
RetainAll(buf, from) ==
    buf

\* lines 313-315: the buffer kept for the next chunk
Retain(buf, from) ==
    IF from > 0 THEN Slice(buf, from + 1) ELSE buf

\* ------------------------------------------------------------- the inputs
\* The bodies the service answers with, written as bytes.

Quoted(text) == <<QT>> \o text \o <<QT>>

Member(key, valueText) == Quoted(key) \o <<":">> \o valueText

\* {"id":"<id>","object":"o","created":1,"model":"m","choices":<choices>}
Payload(id, choices) ==
    <<"{">> \o Member(KId, Quoted(id)) \o <<",">>
        \o Member(KObject, Quoted(<<"o">>)) \o <<",">>
        \o Member(KCreated, <<"1">>) \o <<",">>
        \o Member(KModel, Quoted(<<"m">>)) \o <<",">>
        \o Member(KChoices, choices) \o <<"}">>

\* [{"index":0,"delta":{"content":"<content>"}}]
OneChoice(content) ==
    <<"[", "{">> \o Member(KIndex, <<"0">>) \o <<",">>
        \o Member(KDelta, <<"{">> \o Member(KContent, Quoted(content)) \o <<"}">>)
        \o <<"}", "]">>

NoChoices == <<"[", "]">>

Frame(text) == text \o Terminator

DataFrame(payload) == Frame(DataPrefix \o payload)

\* data: [DONE]
DoneFrame == Frame(DataPrefix \o DoneToken)

\* data: {oops
BadFrame == Frame(DataPrefix \o <<"{", "o", "o", "p", "s">>)

\* : ping
CommentFrame == Frame(<<":", " ", "p", "i", "n", "g">>)

Good1 == DataFrame(Payload(<<"1">>, NoChoices))

Good2 == DataFrame(Payload(<<"2">>, OneChoice(<<"h", "i">>)))

\* a data frame and the done sentinel
BodyExample == Good1 \o DoneFrame

\* a malformed frame between two well-formed ones
BodyBadMiddle == Good1 \o BadFrame \o Good2

\* a two-byte character inside a string of the payload
BodyAccent == DataFrame(Payload(<<LeadByte, ContByte>>, NoChoices)) \o DoneFrame

\* a delta whose content is the text [DONE]
BodyDoneInContent == DataFrame(Payload(<<"3">>, OneChoice(DoneToken))) \o DoneFrame

\* a delta whose content holds the text data: {
BodyPrefixInContent == DataFrame(Payload(<<"4">>, OneChoice(<<"a", " ">> \o RewriteFrom)))

\* frames without the event prefix, then a data frame
BodyNoPrefix ==
    CommentFrame \o Terminator \o Frame(DoneToken) \o Frame(<<" ">> \o DataPrefix \o DoneToken)
        \o Frame(<<LF>> \o DataPrefix \o DoneToken) \o Good1

\* the done sentinel followed by a data frame, and a last frame that lacks
\* its terminator
BodyAfterDone == DoneFrame \o Good1 \o DataPrefix \o Payload(<<"5">>, NoChoices)

\* rate limited
BodyRateLimited == <<"r", "a", "t", "e", " ", "l", "i", "m", "i", "t", "e", "d">>

\* the bodies of a response with a success status
StreamBodies ==
    {BodyExample, BodyBadMiddle, BodyAccent, BodyDoneInContent, BodyPrefixInContent,
     BodyNoPrefix, BodyAfterDone}


\* :"<value>"
StrMember(key, value) == Member(key, Quoted(value))

\* {"prompt_tokens":1,"completion_tokens":2,"total_tokens":3}
UsageText ==
    <<"{">> \o Member(KPrompt, <<"1">>) \o <<",">> \o Member(KCompletion, <<"2">>)
        \o <<",">> \o Member(KTotal, <<"3">>) \o <<"}">>

\* [{"index":0,"message":{"role":"user","content":"hi"}}]
ChoiceText ==
    <<"[", "{">> \o Member(KIndex, <<"0">>) \o <<",">>
        \o Member(KMessage, <<"{">> \o StrMember(KRole, <<"u", "s", "e", "r">>) \o <<",">>
                               \o StrMember(KContent, <<"h", "i">>) \o <<"}">>)
        \o <<"}", "]">>

\* a body of the Structured Response shape
BodyResponse ==
    <<"{">> \o StrMember(KId, <<"1">>) \o <<",">> \o StrMember(KObject, <<"o">>) \o <<",">>
        \o Member(KCreated, <<"1">>) \o <<",">> \o StrMember(KModel, <<"m">>) \o <<",">>
        \o Member(KChoices, ChoiceText) \o <<",">> \o Member(KUsage, UsageText) \o <<"}">>

\* a JSON object that lacks usage
BodyNoUsage == Payload(<<"1">>, NoChoices)

ChatBodies == {BodyResponse, BodyNoUsage, BodyRateLimited}

NoResponse == [delivered |-> FALSE, status |-> 0, body |-> <<>>, readable |-> FALSE]

\* what the POST of chat can come to
ChatOutcomes ==
    {NoResponse}
        \cup [delivered : {TRUE}, status : {200, 429}, body : ChatBodies, readable : BOOLEAN]

\* what the POST of chat_stream can come to; a failed read of the body is
\* the action ReadFail
StreamOutcomes ==
    {NoResponse}
        \cup [delivered : {TRUE}, status : {200}, body : StreamBodies, readable : {TRUE}]
        \cup [delivered : {TRUE}, status : {429}, body : {BodyRateLimited}, readable : {TRUE}]

\* the credentials and custom headers of a client: one of each that encodes
\* as a header value and one that does not
Tokens == {<<"k">>, <<"k", LF>>}

CustomHeaders ==
    {[name \in {"x-id"} |-> <<"7">>], [name \in {"x-id"} |-> <<LF>>]}

\* models::Message: a role and a content
Roles == {"System", "User", "Assistant"}

Contents == {"hi", "yo"}

Messages == [role : Roles, content : Contents]

\* the message lists build_request is applied to
MessageLists ==
    UNION {[1..n -> Messages] : n \in 0..MaxMsgs}

\* a configuration body with the members that are given (<<v>>), without
\* those that are not (<<>>)
BodyOf(stream, messages, system, model, maxTokens, temperature) ==
    LET given == [k \in {"stream", "messages", "system", "model", "max_tokens", "temperature"} |->
                     CASE k = "stream" -> stream
                       [] k = "messages" -> messages
                       [] k = "system" -> system
                       [] k = "model" -> model
                       [] k = "max_tokens" -> maxTokens
                       [] OTHER -> temperature]
    IN  JObj([k \in {key \in DOMAIN given : Len(given[key]) > 0} |-> given[k][1]])

\* the values a configuration gives "stream" and "messages": none, or one
\* of a few
StreamOption(i) ==
    CASE i = 0 -> <<>>
      [] i = 1 -> <<JBool(TRUE)>>
      [] i = 2 -> <<JBool(FALSE)>>
      [] OTHER -> <<JStr("yes")>>

MessagesOption(i) ==
    CASE i = 0 -> <<>>
      [] i = 1 -> <<JArr(<<>>)>>
      [] OTHER -> <<JStr("none")>>

\* a member that is absent (0) or has the value
Option(i, value) ==
    IF i = 0 THEN <<>> ELSE <<value>>

\* a configuration body is chosen by what it gives each member; a body can
\* also be no object at all
ConfigChoices ==
    [object : {TRUE}, stream : 0..3, messages : 0..2, system : 0..1, model : 0..1,
     max_tokens : 0..1, temperature : 0..1]
        \cup [object : {FALSE}, stream : {0}, messages : {0}, system : {0}, model : {0},
              max_tokens : {0}, temperature : {0}]

\* the configuration body of a choice
Body(choice) ==
    IF ~choice.object THEN JNull
    ELSE BodyOf(StreamOption(choice.stream), MessagesOption(choice.messages),
                Option(choice.system, JStr("be brief")), Option(choice.model, JStr("qwen-max")),
                Option(choice.max_tokens, JNum(100)), Option(choice.temperature, JNum(1)))

\* the message lists and configurations of the calls of chat and chat_stream
CallMessages ==
    {<<[role |-> "System", content |-> "yo"], [role |-> "User", content |-> "hi"]>>}

CallConfigs ==
    {[object |-> TRUE, stream |-> 2, messages |-> 0, system |-> 0, model |-> 1,
      max_tokens |-> 0, temperature |-> 0]}

\* ------------------------------------------------------------------ state

VARIABLES
    pc,       \* where the call is: "idle", "once", "created", "await", "scan", "end", "returned"
    call,     \* the arguments of the call made, <<>> before it
    request,  \* what the stream captured: <<[headers, json]>>, or <<>>
    pending,  \* the item of stream::once, <<>> when there is none
    sent,     \* the requests POSTed so far
    resp,     \* the outcome of the POST
    src,      \* the byte stream of the body: "none", "open", "failed" or "ended"
    net,      \* the bytes of the response body not read yet
    data,     \* chat_stream's buffer
    start,    \* the scan offset into data
    out,      \* the items the consumer of the stream received, in order
    result,   \* what chat returned: <<>> or <<Result>>
    text,     \* every decoded chunk pushed to data so far, concatenated
    spanned,  \* the number of the first frame that began in one chunk and ended in a
              \* later one, 0 when there is none so far
    frames    \* the frames extracted so far: [line, upto, first, count]

vars ==
    <<pc, call, request, pending, sent, resp, src, net, data, start, out, result, text, spanned,
      frames>>

Init ==
    /\ pc = "idle"
    /\ call = <<>>
    /\ request = <<>>
    /\ pending = <<>>
    /\ sent = <<>>
    /\ resp = NoResponse
    /\ src = "none"
    /\ net = <<>>
    /\ data = <<>>
    /\ start = 0
    /\ out = <<>>
    /\ result = <<>>
    /\ text = <<>>
    /\ spanned = 0
    /\ frames = <<>>

\* chat (lines 208-248): the headers, the request, one POST and its decoding
Chat(api_token, custom, messages, config) ==
    /\ pc = "idle"
    /\ pc' = "returned"
    /\ call' = <<[op |-> "chat", api_token |-> api_token, custom |-> custom,
                  messages |-> messages, config |-> config]>>
    /\ LET headers == BuildHeaders(api_token, custom)
       IN  IF ~headers.ok
           THEN /\ result' = <<Err(headers.v)>>
                /\ UNCHANGED <<sent, resp>>
           ELSE \E outcome \in ChatOutcomes :
                    /\ sent' = Append(sent, [headers |-> headers.v,
                                             json |-> BuildRequest(messages, FALSE, Body(config))])
                    /\ resp' = outcome
                    /\ result' = <<ChatResult(outcome)>>
    /\ UNCHANGED <<request, pending, src, net, data, start, out, text, spanned, frames>>

\* chat_stream up to its return (lines 256-263): a stream of the one error
\* when the headers fail, else the stream that owns headers and request
ChatStream(api_token, custom, messages, config) ==
    /\ pc = "idle"
    /\ call' = <<[op |-> "chat_stream", api_token |-> api_token, custom |-> custom,
                  messages |-> messages, config |-> config]>>
    /\ LET headers == BuildHeaders(api_token, custom)
       IN  IF ~headers.ok
           THEN /\ pc' = "once"
                /\ pending' = <<Err(headers.v)>>
                /\ UNCHANGED request
           ELSE /\ pc' = "created"
                /\ request' = <<[headers |-> headers.v,
                                 json |-> BuildRequest(messages, TRUE, Body(config))]>>
                /\ UNCHANGED pending
    /\ UNCHANGED <<sent, resp, src, net, data, start, out, result, text, spanned, frames>>

\* the consumer polls the stream of line 258: its one item, then the end
PollOnce ==
    /\ pc = "once"
    /\ out' = out \o pending
    /\ pending' = <<>>
    /\ pc' = "end"
    /\ UNCHANGED <<call, request, sent, resp, src, net, data, start, result, text, spanned,
                   frames>>

\* the first poll (lines 264-278): the POST; a transport failure is the
\* item Err(request_failed) and the end, any response opens the byte stream
Send ==
    /\ pc = "created"
    /\ sent' = Append(sent, request[1])
    /\ \E outcome \in StreamOutcomes :
        /\ resp' = outcome
        /\ IF ~outcome.delivered
           THEN /\ out' = Append(out, Err(RequestFailed))
                /\ pc' = "end"
                /\ UNCHANGED <<net, src>>
           ELSE /\ net' = outcome.body
                /\ src' = "open"
                /\ pc' = "await"
                /\ UNCHANGED out
    /\ data' = <<>>
    /\ UNCHANGED <<call, request, pending, start, result, text, spanned, frames>>

\* stream.next() gives Some(Ok(chunk)) (lines 281-291): any non-empty
\* prefix of the bytes left
NextChunk ==
    /\ pc = "await"
    /\ \E n \in 1..Len(net) :
        /\ data' = PushChunk(data, SubSeq(net, 1, n))
        /\ text' = text \o Utf8Lossy(SubSeq(net, 1, n))
        /\ net' = Slice(net, n + 1)
    /\ spanned' = IF spanned = 0 /\ data # <<>> /\ FindTerminator(data', 0) >= 0
                  THEN Len(frames) + 1 ELSE spanned
    /\ start' = 0
    /\ pc' = "scan"
    /\ UNCHANGED <<call, request, pending, sent, resp, src, out, result, frames>>

\* StreamFailed as it would be with a loop that ends on a failed read
\* (while let Some(Ok(chunk))): no item for the failure
StreamFailedSilently(items) ==
    items

\* lines 283-288: the item Err(stream_error), after which the stream ends
StreamFailed(items) ==
    Append(items, Err(QwenError("stream_error", Msg("Stream error"))))

\* stream.next() gives Some(Err(e))
ReadFail ==
    /\ pc = "await"
    /\ src' = "failed"
    /\ out' = StreamFailed(out)
    /\ pc' = "end"
    /\ UNCHANGED <<call, request, pending, sent, resp, net, data, start, result, text, spanned,
                   frames>>

\* EndOfBody as it would be with a flush after the loop: what is left in the
\* buffer is handled as a last frame
EndOfBodyFlush ==
    /\ pc = "await"
    /\ net = <<>>
    /\ src' = "ended"
    /\ out' = out \o [i \in 1..Len(FrameEvents(data)) |-> DeOk(FrameEvents(data)[i])]
    /\ pc' = "end"
    /\ UNCHANGED <<call, request, pending, sent, resp, net, data, start, result, text,
                   spanned, frames>>

\* stream.next() gives None: the body is read to its end and the stream ends
EndOfBody ==
    /\ pc = "await"
    /\ net = <<>>
    /\ src' = "ended"
    /\ pc' = "end"
    /\ UNCHANGED <<call, request, pending, sent, resp, net, data, start, out, result, text,
                   spanned, frames>>

\* Ok(event) for every event
OkItems(events) ==
    [i \in 1..Len(events) |-> DeOk(events[i])]

\* FrameStep as it would be with the deserializer's error propagated by ?
\* in place of if let Ok: a frame that does not deserialize yields the error
\* and ends the stream
FrameStepStrict(line) ==
    IF StartsWith(line, DataPrefix) /\ FrameEvents(line) = <<>>
    THEN [items |-> <<Err(QwenError("parse_error", Msg("Failed to parse event")))>>,
          stop |-> TRUE]
    ELSE [items |-> OkItems(FrameEvents(line)), stop |-> FALSE]

\* FrameStep as it would be with a break after the terminal marker: the
\* stream ends with StreamEvent::None
FrameStepStopAtDone(line) ==
    [items |-> OkItems(FrameEvents(line)), stop |-> FrameEvents(line) = <<NoneEvent>>]

\* lines 297-308 as a step of the stream: the items the frame yields, and
\* whether the stream ends with them; a frame that does not deserialize
\* yields nothing and the loop goes on
FrameStep(line) ==
    [items |-> OkItems(FrameEvents(line)), stop |-> FALSE]

\* ScanFrame as it would be with the events of a chunk collected and not
\* yielded from inside the loop: the items wait in the stream
ScanFrameHolding ==
    /\ pc = "scan"
    /\ FindTerminator(data, start) >= 0
    /\ LET end == start + FindTerminator(data, start)
           line == SubSeq(data, start + 1, end)
       IN  /\ start' = end + 2
           /\ pending' = pending \o FrameStep(line).items
           /\ pc' = "scan"
           /\ frames' = Append(frames, [line |-> line,
                                        upto |-> Len(text) - Len(data) + end,
                                        first |-> Len(out),
                                        count |-> Len(FrameStep(line).items)])
    /\ UNCHANGED <<call, request, sent, resp, src, net, data, out, result, text, spanned>>

\* one turn of the inner loop (lines 292-311): the frame up to the next
\* terminator is taken and its event, if it has one, yielded
ScanFrame ==
    /\ pc = "scan"
    /\ FindTerminator(data, start) >= 0
    /\ LET end == start + FindTerminator(data, start)
           line == SubSeq(data, start + 1, end)
       IN  /\ start' = end + 2
           /\ out' = out \o FrameStep(line).items
           /\ pc' = IF FrameStep(line).stop THEN "end" ELSE "scan"
           /\ frames' = Append(frames, [line |-> line,
                                        upto |-> Len(text) - Len(data) + end,
                                        first |-> Len(out),
                                        count |-> Len(FrameStep(line).items)])
    /\ UNCHANGED <<call, request, pending, sent, resp, src, net, data, result, text, spanned>>

\* the inner loop ends (lines 313-315): the consumed part of the buffer is
\* dropped and the next chunk awaited
ScanEnd ==
    /\ pc = "scan"
    /\ FindTerminator(data, start) < 0
    /\ data' = Retain(data, start)
    /\ start' = 0
    /\ pc' = "await"
    /\ UNCHANGED <<call, request, pending, sent, resp, src, net, out, result, text, spanned,
                   frames>>

Next ==
    \/ \E t \in Tokens, c \in CustomHeaders, m \in CallMessages, b \in CallConfigs :
        Chat(t, c, m, b)
    \/ \E t \in Tokens, c \in CustomHeaders, m \in CallMessages, b \in CallConfigs :
        ChatStream(t, c, m, b)
    \/ PollOnce
    \/ Send
    \/ NextChunk
    \/ ReadFail
    \/ EndOfBody
    \/ ScanFrame
    \/ ScanEnd

Spec == Init /\ [][Next]_vars

\* a turn of the inner loop by what it does to the scan offset (lines 292
\* and 295): among the steps of Next these are the steps of ScanFrame, and
\* it is enabled exactly when ScanFrame is
FrameTaken ==
    /\ pc = "scan"
    /\ FindTerminator(data, start) >= 0
    /\ start' = start + FindTerminator(data, start) + 2

\* The consumer keeps polling the stream, so the scan of a chunk goes on to
\* its end, and the byte stream answers every stream.next() that follows the
\* last chunk, with None or with an error.
Polled ==
    /\ WF_start(FrameTaken)
    /\ WF_vars(ScanEnd)
    /\ WF_vars(EndOfBody \/ ReadFail)

SpecPolled == Init /\ [][Next]_vars /\ Polled

\* ------------------------------------------------ build_request on its own

\* build_request is about to be applied to a message list, a stream flag
\* and a configuration body
InitReq ==
    /\ pc = "compose"
    /\ call \in {<<[op |-> "build_request", messages |-> m, stream |-> f, config |-> c]>> :
                    m \in MessageLists, f \in BOOLEAN, c \in ConfigChoices}
    /\ request = <<>>
    /\ pending = <<>>
    /\ sent = <<>>
    /\ resp = NoResponse
    /\ src = "none"
    /\ net = <<>>
    /\ data = <<>>
    /\ start = 0
    /\ out = <<>>
    /\ result = <<>>
    /\ text = <<>>
    /\ spanned = 0
    /\ frames = <<>>

\* build_request (lines 151-205) applied
Compose ==
    /\ pc = "compose"
    /\ request' = <<BuildRequest(call[1].messages, call[1].stream, Body(call[1].config))>>
    /\ pc' = "composed"
    /\ UNCHANGED <<call, pending, sent, resp, src, net, data, start, out, result, text, spanned,
                   frames>>

NextReq == Compose

SpecReq == InitReq /\ [][NextReq]_vars

\* ------------------------------------------- two chat_stream calls at once
\* Two streams made by chat_stream on one client, polled in any interleaving.
\* Here pc, resp, src, net, start, out and text hold one value per call, data
\* one value per buffer, and sent is the log of the client's transport, which
\* the calls share.

Calls == {1, 2}

\* a second body, with other events than BodyExample
BodyHello == Good2 \o DoneFrame

PairBodies == {BodyExample, BodyHello}

\* the lengths a chunk of the bytes left can have in SpecPair: a multiple of
\* PairChunk, or all of them
ChunkLengths(bytes) ==
    {n \in 1..Len(bytes) : n = Len(bytes) \/ n % PairChunk = 0}

\* BufferOf as it would be were the buffer a field of the client, which the
\* calls share (&self)
BufferOfClient(c) ==
    1

\* line 278: let mut data = String::new() is a local of the stream's block,
\* so every stream has a buffer of its own
BufferOf(c) ==
    c

InitPair ==
    /\ pc = [c \in Calls |-> "created"]
    /\ call = <<>>
    /\ request = <<>>
    /\ pending = <<>>
    /\ sent = <<>>
    /\ resp = [c \in Calls |-> NoResponse]
    /\ src = [c \in Calls |-> "none"]
    /\ net = [c \in Calls |-> <<>>]
    /\ data = [b \in Calls |-> <<>>]
    /\ start = [c \in Calls |-> 0]
    /\ out = [c \in Calls |-> <<>>]
    /\ result = <<>>
    /\ text = [c \in Calls |-> <<>>]
    /\ spanned = 0
    /\ frames = <<>>

\* the first poll of the stream of call c (lines 264-278): the POST through
\* the shared client, a response with a body, and the empty buffer
SendOf(c) ==
    /\ pc[c] = "created"
    /\ sent' = Append(sent, c)
    /\ \E body \in PairBodies :
        /\ resp' = [resp EXCEPT ![c] = [delivered |-> TRUE, status |-> 200, body |-> body,
                                        readable |-> TRUE]]
        /\ net' = [net EXCEPT ![c] = body]
    /\ src' = [src EXCEPT ![c] = "open"]
    /\ data' = [data EXCEPT ![BufferOf(c)] = <<>>]
    /\ pc' = [pc EXCEPT ![c] = "await"]
    /\ UNCHANGED <<call, request, pending, start, out, result, text, spanned, frames>>

\* lines 281-291 for call c: a chunk of its body is pushed to its buffer
NextChunkOf(c) ==
    /\ pc[c] = "await"
    /\ \E n \in ChunkLengths(net[c]) :
        /\ data' = [data EXCEPT ![BufferOf(c)] = PushChunk(@, SubSeq(net[c], 1, n))]
        /\ text' = [text EXCEPT ![c] = @ \o Utf8Lossy(SubSeq(net[c], 1, n))]
        /\ net' = [net EXCEPT ![c] = Slice(@, n + 1)]
    /\ start' = [start EXCEPT ![c] = 0]
    /\ pc' = [pc EXCEPT ![c] = "scan"]
    /\ UNCHANGED <<call, request, pending, sent, resp, src, out, result, spanned, frames>>

\* line 281 for call c: its body is read to its end and its stream ends
EndOfBodyOf(c) ==
    /\ pc[c] = "await"
    /\ net[c] = <<>>
    /\ src' = [src EXCEPT ![c] = "ended"]
    /\ pc' = [pc EXCEPT ![c] = "end"]
    /\ UNCHANGED <<call, request, pending, sent, resp, net, data, start, out, result, text,
                   spanned, frames>>

\* lines 292-311 for call c: the next frame of its buffer
ScanFrameOf(c) ==
    /\ pc[c] = "scan"
    /\ FindTerminator(data[BufferOf(c)], start[c]) >= 0
    /\ start' = [start EXCEPT ![c] = @ + FindTerminator(data[BufferOf(c)], @) + 2]
    /\ out' = [out EXCEPT ![c] =
                  @ \o FrameStep(SubSeq(data[BufferOf(c)], start[c] + 1,
                                        start[c] + FindTerminator(data[BufferOf(c)], start[c]))).items]
    /\ UNCHANGED <<pc, call, request, pending, sent, resp, src, net, data, result, text, spanned,
                   frames>>

\* lines 313-315 for call c: the end of the inner loop
ScanEndOf(c) ==
    /\ pc[c] = "scan"
    /\ FindTerminator(data[BufferOf(c)], start[c]) < 0
    /\ data' = [data EXCEPT ![BufferOf(c)] = Retain(@, start[c])]
    /\ start' = [start EXCEPT ![c] = 0]
    /\ pc' = [pc EXCEPT ![c] = "await"]
    /\ UNCHANGED <<call, request, pending, sent, resp, src, net, out, result, text, spanned,
                   frames>>

NextPair ==
    \/ \E c \in Calls : SendOf(c)
    \/ \E c \in Calls : NextChunkOf(c)
    \/ \E c \in Calls : EndOfBodyOf(c)
    \/ \E c \in Calls : ScanFrameOf(c)
    \/ \E c \in Calls : ScanEndOf(c)

SpecPair == InitPair /\ [][NextPair]_vars

\* ------------------------------------------------------------------ claims

\* whether no item is an Err
NoErrors(items) ==
    \A i \in 1..Len(items) : items[i].ok

RECURSIVE ScanAll(_, _)
\* the events of every terminated frame of a buffer, scanned in one go from
\* offset from
ScanAll(buf, from) ==
    IF FindTerminator(buf, from) < 0 THEN <<>>
    ELSE FrameEvents(SubSeq(buf, from + 1, from + FindTerminator(buf, from)))
             \o ScanAll(buf, from + FindTerminator(buf, from) + 2)

\* the data events of Good1 and Good2
Event1 ==
    [data |-> "data", id |-> <<"1">>, object |-> <<"o">>, created |-> 1, model |-> <<"m">>,
     choices |-> <<>>, usage |-> <<>>, system_fingerprint |-> <<>>]

Event2 ==
    [data |-> "data", id |-> <<"2">>, object |-> <<"o">>, created |-> 1, model |-> <<"m">>,
     choices |-> <<[index |-> 0, delta |-> [role |-> <<>>, content |-> <<<<"h", "i">>>>],
                    finish_reason |-> <<>>, logprobs |-> <<>>]>>,
     usage |-> <<>>, system_fingerprint |-> <<>>]

\* C1: when the body has been read to its end, the items the consumer got
\* are the events of the whole body delivered as a single chunk, however the
\* body was split into chunks.
ChunkingInvariance ==
    (pc = "end" /\ src = "ended") => out = OkItems(ScanAll(PushChunk(<<>>, resp.body), 0))

\* C2: the frames are extracted in the order they end in the stream and the
\* event of a frame stands in the output before the events of every later
\* frame; the body of a data frame and the done sentinel yields the data
\* event and then the terminal marker, however it is split.
StreamOrder ==
    /\ \A i, j \in 1..Len(frames) :
        i < j => /\ frames[i].upto < frames[j].upto
                 /\ frames[i].first + frames[i].count <= frames[j].first
    /\ \A i \in 1..Len(frames) :
        frames[i].count = 1 => out[frames[i].first + 1] = DeOk(FrameEvents(frames[i].line)[1])
    /\ (pc = "end" /\ src = "ended" /\ resp.body = BodyExample)
        => out = <<DeOk(Event1), DeOk(NoneEvent)>>

\* C2 witness: the data frame came in two chunks, the body was read to its
\* end and the two events were delivered.
StreamOrderWitness ==
    /\ pc = "end" /\ src = "ended" /\ resp.body = BodyExample
    /\ spanned = 1
    /\ out = <<DeOk(Event1), DeOk(NoneEvent)>>

\* C3: while the body is being read no item is an error and the stream has
\* not ended, whatever frames came; the body with a malformed frame between
\* two well-formed ones yields exactly the two events, in order.
BadFrameSkipped ==
    /\ src = "open" => (NoErrors(out) /\ pc \in {"await", "scan"})
    /\ (pc = "end" /\ src = "ended" /\ resp.body = BodyBadMiddle)
        => out = <<DeOk(Event1), DeOk(Event2)>>

\* C3 witness: the malformed frame was extracted, yielded nothing, and the
\* two events were delivered.
BadFrameSkippedWitness ==
    /\ pc = "end" /\ src = "ended" /\ resp.body = BodyBadMiddle
    /\ Len(frames) = 3 /\ frames[2].count = 0
    /\ out = <<DeOk(Event1), DeOk(Event2)>>

\* a frame that starts with "data: " and contains "[DONE]"
IsDoneFrame(line) ==
    StartsWith(line, DataPrefix) /\ Contains(line, DoneToken)

\* C4: every done-sentinel frame yielded exactly one item, the terminal
\* marker StreamEvent::None.
DoneYieldsNone ==
    \A i \in 1..Len(frames) :
        IsDoneFrame(frames[i].line)
            => (frames[i].count = 1 /\ out[frames[i].first + 1] = DeOk(NoneEvent))

\* C4 witness: a done-sentinel frame was extracted and its marker delivered.
DoneYieldsNoneWitness ==
    \E i \in 1..Len(frames) :
        /\ frames[i].line = DataPrefix \o DoneToken
        /\ frames[i].count = 1
        /\ out[frames[i].first + 1] = DeOk(NoneEvent)

\* C5: whenever the parser awaits a chunk, every event of every frame
\* terminated in the text received so far has been delivered; when a read
\* fails, the stream has ended and the consumer has those events followed by
\* exactly one error, tagged stream_error, as the last item.
ReadFailureKeepsEvents ==
    /\ pc = "await" => out = OkItems(ScanAll(text, 0))
    /\ src = "failed"
        => /\ pc = "end"
           /\ out = Append(OkItems(ScanAll(text, 0)),
                           Err(QwenError("stream_error", Msg("Stream error"))))

\* C5 witness: a read failed after two events had been delivered.
ReadFailureWitness ==
    /\ src = "failed"
    /\ Len(out) = 3
    /\ out[1].ok /\ out[2].ok /\ ~out[3].ok

\* C6: when the service answers the POST of chat_stream with a status that
\* is no success, the items hold an error tagged api_error.
StatusErrorSurfaces ==
    (pc = "end" /\ resp.delivered /\ ~IsSuccess(resp.status))
        => \E i \in 1..Len(out) : ~out[i].ok /\ out[i].v.type_ = "api_error"

\* whether the credential and the custom headers of a call encode as header
\* values
HeadersEncodable(c) ==
    /\ HeaderValueOk(Bearer \o c.api_token)
    /\ \A name \in DOMAIN c.custom : HeaderValueOk(c.custom[name])

\* C7: after a call whose headers do not encode, no request is ever sent;
\* chat_stream's items are exactly the one Internal error, then the end, and
\* chat returned the Internal error.
HeaderFailureShortCircuits ==
    (call # <<>> /\ call[1].op \in {"chat", "chat_stream"} /\ ~HeadersEncodable(call[1]))
        => /\ sent = <<>>
           /\ call[1].op = "chat_stream"
                => \/ pc = "once" /\ out = <<>>
                   \/ pc = "end" /\ Len(out) = 1 /\ ~out[1].ok /\ out[1].v.err = "Internal"
           /\ call[1].op = "chat"
                => Len(result) = 1 /\ ~result[1].ok /\ result[1].v.err = "Internal"

\* C7 witness: chat_stream was called with a credential that does not
\* encode, and its stream gave the one error and ended.
HeaderFailureWitness ==
    /\ call # <<>> /\ call[1].op = "chat_stream" /\ ~HeaderValueOk(call[1].api_token)
    /\ pc = "end" /\ Len(out) = 1 /\ sent = <<>>

\* C8: what chat returned, by the outcome of its POST: request_failed for a
\* transport failure, api_error with the body text as message for a status
\* that is no success, parse_error for a success status with a body that is
\* not of the response shape, and a response only for a success status with
\* a body of that shape.
ChatErrorTaxonomy ==
    (call # <<>> /\ call[1].op = "chat" /\ sent # <<>>)
        => /\ ~resp.delivered => (~result[1].ok /\ result[1].v.type_ = "request_failed")
           /\ (resp.delivered /\ ~IsSuccess(resp.status))
                => (~result[1].ok /\ result[1].v.type_ = "api_error")
           /\ (resp.delivered /\ ~IsSuccess(resp.status) /\ resp.readable)
                => result[1].v.message = Utf8Lossy(resp.body)
           /\ (resp.delivered /\ IsSuccess(resp.status) /\ resp.body # BodyResponse)
                => (~result[1].ok /\ result[1].v.type_ = "parse_error")
           /\ result[1].ok
                <=> (resp.delivered /\ IsSuccess(resp.status) /\ resp.readable
                     /\ resp.body = BodyResponse)

\* C8 witness: the service answered 429 with the text rate limited and chat
\* returned the api_error with that text.
ChatErrorWitness ==
    /\ pc = "returned" /\ resp.delivered /\ resp.status = 429 /\ resp.readable
    /\ resp.body = BodyRateLimited
    /\ result = <<Err(QwenError("api_error", BodyRateLimited))>>

\* whether two values are the same value
SameValue(a, b) ==
    a.t = b.t /\ a.v = b.v

\* C9: the composed request has the caller's stream flag and the filtered
\* caller messages, its other members hold none of "stream", "messages" and
\* "system", and they hold every other member of the configuration body
\* with the configuration's value.
ReservedKeysProtected ==
    pc = "composed"
        => /\ request[1].stream = call[1].stream
           /\ request[1].messages = FilterMessages(call[1].messages)
           /\ request[1].additional_params.t = "obj"
           /\ DOMAIN request[1].additional_params.v \cap {"stream", "messages", "system"} = {}
           /\ Body(call[1].config).t = "obj"
                => \A k \in DOMAIN Body(call[1].config).v \ {"stream", "messages", "system"} :
                    /\ k \in DOMAIN request[1].additional_params.v
                    /\ SameValue(request[1].additional_params.v[k], Body(call[1].config).v[k])

\* C9 witness: a configuration that sets all three reserved keys, and a
\* request composed with the caller's flag.
ReservedKeysWitness ==
    /\ pc = "composed"
    /\ call[1].config.stream = 1 /\ call[1].config.messages = 1 /\ call[1].config.system = 1
    /\ call[1].config.temperature = 1
    /\ ~call[1].stream /\ ~request[1].stream
    /\ Len(call[1].messages) > 0

RECURSIVE NonSystem(_)
\* the messages that are not system messages, in order, in the provider's
\* vocabulary
NonSystem(messages) ==
    IF messages = <<>> THEN <<>>
    ELSE IF Head(messages).role = "System" THEN NonSystem(Tail(messages))
    ELSE <<[role |-> <<IF Head(messages).role = "User" THEN "user" ELSE "assistant">>,
            content |-> <<Head(messages).content>>]>> \o NonSystem(Tail(messages))

\* C10: the composed request has no system-role entry; its messages are the
\* non-system messages of the input, in their order, User as "user",
\* Assistant as "assistant", the content unchanged.
SystemMessagesFiltered ==
    pc = "composed"
        => /\ \A i \in 1..Len(request[1].messages) :
                request[1].messages[i].role \in {<<"user">>, <<"assistant">>}
           /\ request[1].messages = NonSystem(call[1].messages)

\* C10 witness: a list with a system message between two others was
\* composed into a request of the two.
SystemMessagesWitness ==
    /\ pc = "composed"
    /\ Len(call[1].messages) = 2
    /\ call[1].messages[1].role = "System" /\ call[1].messages[2].role = "Assistant"
    /\ Len(request[1].messages) = 1

\* the member key of the configuration body when it has one, else the default
ConfiguredOr(body, key, default) ==
    IF body.t = "obj" /\ key \in DOMAIN body.v THEN body.v[key] ELSE default

\* C11: the composed request's "model" is the configuration's "model" when
\* the configuration has one and "qwen-plus" otherwise, and its "max_tokens"
\* is the configuration's "max_tokens" when it has one and 8192 otherwise.
ConfiguredOrDefault ==
    pc = "composed"
        => /\ request[1].additional_params.t = "obj"
           /\ {"model", "max_tokens"} \subseteq DOMAIN request[1].additional_params.v
           /\ SameValue(request[1].additional_params.v["model"],
                        ConfiguredOr(Body(call[1].config), "model", JStr("qwen-plus")))
           /\ SameValue(request[1].additional_params.v["max_tokens"],
                        ConfiguredOr(Body(call[1].config), "max_tokens", JNum(8192)))

\* C11 witness: a configuration that gives a model and no max_tokens was
\* composed into a request with that model and the default limit.
ConfiguredOrDefaultWitness ==
    /\ pc = "composed"
    /\ call[1].config.object /\ call[1].config.model = 1 /\ call[1].config.max_tokens = 0
    /\ SameValue(request[1].additional_params.v["model"], JStr("qwen-max"))
    /\ SameValue(request[1].additional_params.v["max_tokens"], JNum(8192))

\* the items of Good2
Hello == <<DeOk(Event2), DeOk(NoneEvent)>>

\* C12: with two streams of one client polled in any interleaving, whenever
\* the stream of a call awaits a chunk or has ended, its consumer has exactly
\* the events of the text of that call's own chunks, as a call alone has
\* (C5), and in between it has a prefix of them; the buffer of a call holds
\* text of that call only.
CallIsolation ==
    \A c \in Calls :
        /\ pc[c] \in {"await", "end"} => out[c] = OkItems(ScanAll(text[c], 0))
        /\ Len(out[c]) <= Len(OkItems(ScanAll(text[c], 0)))
        /\ out[c] = SubSeq(OkItems(ScanAll(text[c], 0)), 1, Len(out[c]))
        /\ pc[c] = "end"
            => out[c] = IF resp[c].body = BodyExample
                        THEN <<DeOk(Event1), DeOk(NoneEvent)>> ELSE Hello
        /\ pc[c] \in {"await", "scan"}
            => \E k \in 0..Len(text[c]) : data[c] = Slice(text[c], k + 1)

\* C12 witness: both streams are under way at once, each with an event
\* delivered and a part of its next frame in its buffer, the bodies differing.
CallIsolationWitness ==
    /\ pc[1] = "await" /\ pc[2] = "await"
    /\ resp[1].body = BodyExample /\ resp[2].body = BodyHello
    /\ out[1] = <<DeOk(Event1)>> /\ out[2] = <<DeOk(Event2)>>
    /\ data[1] # <<>> /\ data[2] # <<>> /\ data[1] # data[2]

\* the last frame of BodyAfterDone, which lacks its terminator
Tail5 == DataPrefix \o Payload(<<"5">>, NoChoices)

\* the stream ended because the byte stream ended
EndedClean ==
    pc = "end" /\ src = "ended"

\* what holds of a stream that ended with its byte stream: no item is an
\* error, the items are the events of the terminated frames and of nothing
\* else, and what the buffer still holds gave no item, a whole data payload
\* without "\n\n" included
TailDropped ==
    EndedClean
        => /\ NoErrors(out)
           /\ out = OkItems(ScanAll(text, 0))
           /\ FindTerminator(data, 0) < 0
           /\ resp.body = BodyAfterDone
                => /\ data = Tail5
                   /\ out = <<DeOk(NoneEvent), DeOk(Event1)>>

\* C13: once every byte of the body has been read, the stream of a consumer
\* that keeps polling ends; and a stream that ended with its byte stream has
\* no error item and no item for the bytes left in the buffer after the last
\* terminator.
EndOfStream ==
    /\ [](TailDropped)
    /\ (src = "open" /\ net = <<>>) ~> (pc = "end")
    /\ [][EndedClean => UNCHANGED out]_vars

\* C13 witness: the body whose last frame lacks its terminator was read to
\* its end, and the stream ended with that frame in the buffer and the two
\* events before it delivered.
EndOfStreamWitness ==
    /\ EndedClean
    /\ resp.body = BodyAfterDone
    /\ data = Tail5
    /\ FrameEvents(Tail5) # <<>>
    /\ out = <<DeOk(NoneEvent), DeOk(Event1)>>

RECURSIVE FrameLines(_, _)
\* the terminated frames of a text from offset from, in order
FrameLines(buf, from) ==
    IF FindTerminator(buf, from) < 0 THEN <<>>
    ELSE <<SubSeq(buf, from + 1, from + FindTerminator(buf, from))>>
             \o FrameLines(buf, from + FindTerminator(buf, from) + 2)

\* the offset in the text received at which the last extracted frame ended,
\* its terminator included
Consumed ==
    IF frames = <<>> THEN 0 ELSE frames[Len(frames)].upto + 2

\* C14: whenever the parser awaits a chunk, its buffer holds no "\n\n": the
\* frames extracted are the terminated frames of the text received, every
\* one of them, and the buffer is what follows the last of them.
BufferHasNoTerminator ==
    pc = "await"
        => /\ ~Contains(data, Terminator)
           /\ [i \in 1..Len(frames) |-> frames[i].line] = FrameLines(text, 0)
           /\ data = Slice(text, Consumed + 1)

\* C14 witness: the parser awaits a chunk after it extracted two frames, with
\* the begin of a third in its buffer.
BufferHasNoTerminatorWitness ==
    /\ pc = "await" /\ src = "open"
    /\ resp.body = BodyAfterDone
    /\ Len(frames) = 2
    /\ data # <<>> /\ Len(data) < Len(text)
    /\ ~Contains(data, Terminator)

RECURSIVE AfterLastTerminator(_, _)
\* what follows the last terminator the scan of a buffer finds from offset
\* from; the whole of it from there when it finds none
AfterLastTerminator(buf, from) ==
    IF FindTerminator(buf, from) < 0 THEN Slice(buf, from + 1)
    ELSE AfterLastTerminator(buf, from + FindTerminator(buf, from) + 2)

\* the chunk a step took from the bytes not read
ChunkTaken ==
    SubSeq(net, 1, Len(net) - Len(net'))

\* C15: a chunk is appended, decoded, to the buffer; when the chunk has been
\* processed the buffer is what followed the last terminator found in the
\* previous buffer with the chunk; and when that text has no terminator the
\* buffer stays the whole of it and nothing is yielded.
BufferRetention ==
    [][/\ (pc = "await" /\ pc' = "scan")
            => (data' = data \o Utf8Lossy(ChunkTaken) /\ out' = out)
       /\ (pc = "scan" /\ pc' = "await")
            => (data' = AfterLastTerminator(data, 0) /\ out' = out)
       /\ (pc = "scan" /\ ~Contains(data, Terminator))
            => (pc' = "await" /\ data' = data /\ out' = out)]_vars

\* C15 witness: the scan of a chunk found a frame and came to its end with
\* bytes left after the last terminator.
BufferRetentionWitness ==
    /\ pc = "scan"
    /\ start > 0 /\ start < Len(data)
    /\ FindTerminator(data, start) < 0
    /\ AfterLastTerminator(data, 0) = Slice(data, start + 1)

\* the data event of a parsed payload, when the payload is a JSON object of
\* that shape
MessageOfPayload(r) ==
    IF r.ok /\ r.v.t = "obj" THEN DeMessage(r.v.v) ELSE DeFail

\* the data event of the payload that follows "data: " in a frame
PayloadEvent(line) ==
    MessageOfPayload(ParseJson(Slice(line, Len(DataPrefix) + 1)))

\* a frame that is "data: " and a JSON object of the data-event shape
IsDataFrame(line) ==
    StartsWith(line, DataPrefix) /\ PayloadEvent(line).ok

\* C16: every extracted frame that is "data: " and a payload of the
\* data-event shape, and is no done-sentinel frame, yielded exactly one
\* item, the data event with the fields of the payload as they are written
\* in the frame.
PrefixRewriteIntact ==
    \A i \in 1..Len(frames) :
        (IsDataFrame(frames[i].line) /\ ~IsDoneFrame(frames[i].line))
            => /\ frames[i].count = 1
               /\ out[frames[i].first + 1] = DeOk(PayloadEvent(frames[i].line).v)

\* C17: an extracted frame that is "data: " and a payload of the data-event
\* shape did not yield the terminal marker, and the terminal marker was
\* yielded for the frame "data: [DONE]" only.
DoneDistinctFromData ==
    \A i \in 1..Len(frames) :
        /\ IsDataFrame(frames[i].line)
            => ~(frames[i].count = 1 /\ out[frames[i].first + 1] = DeOk(NoneEvent))
        /\ (frames[i].count = 1 /\ out[frames[i].first + 1] = DeOk(NoneEvent))
            => frames[i].line = DataPrefix \o DoneToken

\* the frame a step of the inner loop took: the text between the scan
\* offset and the terminator the step went past
FrameTakenLine ==
    SubSeq(data, start + 1, start' - 2)

\* C18: the step of the inner loop that takes a frame hands the frame's
\* event to the consumer in that step; and at every step that asks the byte
\* stream for the next chunk the consumer has the events of every frame
\* terminated in the chunks so far.
ImmediateYield ==
    [][/\ (pc = "scan" /\ start' > start)
            => out' = out \o OkItems(FrameEvents(FrameTakenLine))
       /\ (pc = "await" /\ pc' # "await")
            => /\ out = OkItems(ScanAll(text, 0))
               /\ pending = <<>>]_vars

\* C18 witness: with bytes still to come the parser is about to ask for the
\* next chunk, and the consumer has the event of the frame the chunks so far
\* terminated.
ImmediateYieldWitness ==
    /\ pc = "await" /\ src = "open" /\ net # <<>>
    /\ resp.body = BodyBadMiddle
    /\ Len(frames) = 2
    /\ out = <<DeOk(Event1)>>

\* the items that are events
Events(items) ==
    SelectSeq(items, LAMBDA item : item.ok)

\* C19: an extracted frame that does not begin with "data: " yielded no
\* item, event or error; every extracted frame yielded at most one item; and
\* the events the consumer has are never more than the frames extracted,
\* one for each terminator received.
NoPrefixNoEvent ==
    /\ \A i \in 1..Len(frames) :
        /\ ~StartsWith(frames[i].line, DataPrefix) => frames[i].count = 0
        /\ frames[i].count <= 1
    /\ Len(Events(out)) <= Len(frames)
    /\ Len(frames) <= Len(FrameLines(text, 0))
    /\ src = "open" => NoErrors(out)
    /\ (EndedClean /\ resp.body = BodyNoPrefix) => out = <<DeOk(Event1)>>

\* C19 witness: the comment frame, the empty frame, "[DONE]" without the
\* prefix and the frames with a leading blank and a leading newline were
\* extracted and yielded nothing; the data frame after them yielded its
\* event.
NoPrefixNoEventWitness ==
    /\ EndedClean /\ resp.body = BodyNoPrefix
    /\ Len(frames) = 6
    /\ frames[2].line = <<>>
    /\ frames[3].line = DoneToken
    /\ frames[5].line = <<LF>> \o DataPrefix \o DoneToken
    /\ \A i \in 1..5 : frames[i].count = 0
    /\ out = <<DeOk(Event1)>>

\* whether the terminal marker is among the items
MarkerYielded(items) ==
    \E i \in 1..Len(items) : items[i] = DeOk(NoneEvent)

\* C20: the stream does not end with the terminal marker: while the byte
\* stream is open the parser scans or awaits a chunk, marker yielded or not;
\* a stream has ended only with its byte stream or with an error as its
\* last item; a frame after the done sentinel yields its event, and a read
\* that fails after it yields the stream_error.
MarkerDoesNotEnd ==
    /\ (src = "open" /\ MarkerYielded(out)) => pc \in {"await", "scan"}
    /\ pc = "end" => (src = "ended" \/ (out # <<>> /\ ~out[Len(out)].ok))
    /\ (EndedClean /\ resp.body = BodyAfterDone) => out = <<DeOk(NoneEvent), DeOk(Event1)>>
    /\ (src = "failed" /\ MarkerYielded(out))
        => out[Len(out)] = Err(QwenError("stream_error", Msg("Stream error")))

\* C20 witness: the done sentinel came first, the data frame after it
\* yielded its event, and the read that failed after that yielded the
\* stream_error.
MarkerDoesNotEndWitness ==
    /\ src = "failed" /\ resp.body = BodyAfterDone
    /\ Len(out) = 3
    /\ out[1] = DeOk(NoneEvent)
    /\ out[2] = DeOk(Event1)
    /\ out[3] = Err(QwenError("stream_error", Msg("Stream error")))
====
